---- MODULE Spec2Model ----
(***************************************************************************)
(* A model of musicbox.rs: the Song/Album/Collection catalog, the          *)
(* line-by-line parser Collection::parseFile, the lookup                   *)
(* Collection::find_album and the timestamp codec to_seconds /             *)
(* to_timestamp.                                                           *)
(*                                                                         *)
(* Text is modelled by TLA+ strings, read character by character with      *)
(* SubSeq; all the text of the model is ASCII, so a character is a byte.   *)
(***************************************************************************)
EXTENDS Integers, Sequences, FiniteSets, TLC

VARIABLES
    overflow_checks,  \* the build: TRUE when u16 arithmetic panics on overflow
                      \* (debug profile), FALSE when it wraps (release profile)
    collection,       \* the Collection: [length, albums]
    album,            \* parseFile's local `album`, the accumulator
    read,             \* the lines the current parseFile call has taken from file.lines()
    before,           \* the Collection as it was when the current parseFile call began
    nlines,           \* lines read by all parseFile calls so far
    pc,               \* where the program is
    arg,              \* the argument of the last codec or lookup call
    ret               \* what that call returned

vars == <<overflow_checks, collection, album, read, before, nlines, pc, arg, ret>>

-----------------------------------------------------------------------------
(* Bounds of the model                                                     *)

\* Lines read from files over the life of a Collection.
MaxLines == 4

\* ':'-separated fields of the timestamps handed to to_seconds.
MaxFields == 4

\* Characters of the short lines that are classified and split one by one.
MaxLineLen == 5

(* Program constants                                                       *)

\* The largest u16: Song.length, Collection.length and the codec are u16.
U16Max == 65535

-----------------------------------------------------------------------------
(* Text                                                                    *)

Char(s, i) == SubSeq(s, i, i)

Digits == {"0", "1", "2", "3", "4", "5", "6", "7", "8", "9"}

DigitValue(c) ==
    CASE c = "0" -> 0 [] c = "1" -> 1 [] c = "2" -> 2 [] c = "3" -> 3
      [] c = "4" -> 4 [] c = "5" -> 5 [] c = "6" -> 6 [] c = "7" -> 7
      [] c = "8" -> 8 [] c = "9" -> 9

DigitChar(d) == <<"0", "1", "2", "3", "4", "5", "6", "7", "8", "9">>[d + 1]

\* What the regex class \s matches, among the characters of the model.
WhiteSpace == {" ", "\t"}

\* A slip a programmer could make: the test for a track line is the split
\* pattern, any whitespace around the hyphen.
SongTest_any_space == <<WhiteSpace, {"-"}, WhiteSpace>>

\* A regex without repetition is a sequence of character classes.
SongTest    == <<{" "}, {"-"}, {" "}>>              \* Regex::new(r" - ")
SongSplit   == <<WhiteSpace, {"-"}, WhiteSpace>>    \* Regex::new(r"\s{1}-\s{1}")
HeaderSplit == <<{" "}, {":"}, {" "}>>              \* Regex::new(r" : ")
TimeSplit   == <<{":"}>>                            \* Regex::new(r":")

MatchesAt(re, s, i) ==
    /\ i + Len(re) - 1 <= Len(s)
    /\ \A k \in 1..Len(re) : Char(s, i + k - 1) \in re[k]

\* Regex::is_match: the pattern occurs somewhere in the text.
is_match(re, s) == \E i \in 1..Len(s) : MatchesAt(re, s, i)

\* The start of the leftmost match at or after `from`, 0 when there is none.
FindFrom(re, s, from) ==
    LET hits == {i \in from..Len(s) : MatchesAt(re, s, i)}
    IN  IF hits = {} THEN 0 ELSE CHOOSE i \in hits : \A j \in hits : i <= j

\* Regex::split(..).collect(): the text between the successive leftmost
\* non-overlapping matches, the empty pieces and the last piece included.
RECURSIVE SplitFrom(_, _, _)
SplitFrom(re, s, from) ==
    LET at == FindFrom(re, s, from)
    IN  IF at = 0
        THEN <<SubSeq(s, from, Len(s))>>
        ELSE <<SubSeq(s, from, at - 1)>> \o SplitFrom(re, s, at + Len(re))

split(re, s) == SplitFrom(re, s, 1)

-----------------------------------------------------------------------------
(* Results                                                                 *)

Ok(v) == [ok |-> TRUE, val |-> v]
Err(e) == [ok |-> FALSE, err |-> e]

\* A call that unwound with a panic instead of returning.
Panic(why) == [panic |-> TRUE, why |-> why]
Returned(v) == [panic |-> FALSE, val |-> v]

NoValue == [none |-> TRUE]

\* No call has been made yet.
NoCall == [fn |-> "none"]

-----------------------------------------------------------------------------
(* The timestamp codec                                                     *)

Wrap16(n) == n % (U16Max + 1)

\* str::parse::<u16>: an optional '+', then decimal digits accumulated with
\* checked arithmetic.
RECURSIVE ParseDigits(_, _, _)
ParseDigits(s, i, acc) ==
    IF i > Len(s) THEN Ok(acc)
    ELSE IF Char(s, i) \notin Digits THEN Err("InvalidDigit")
    ELSE IF acc * 10 + DigitValue(Char(s, i)) > U16Max THEN Err("PosOverflow")
    ELSE ParseDigits(s, i + 1, acc * 10 + DigitValue(Char(s, i)))

parse_u16(s) ==
    IF s = "" THEN Err("Empty")
    ELSE IF s \in {"+", "-"} THEN Err("InvalidDigit")
    ELSE IF Char(s, 1) = "+" THEN ParseDigits(s, 2, 0)
    ELSE ParseDigits(s, 1, 0)

\* A slip a programmer could make: the hours are multiplied by 60 only once.
to_seconds_hours_as_minutes(time) ==
    LET values == split(TimeSplit, time)
        p0 == parse_u16(values[1])
        h1 == p0.val * 60
        p1 == parse_u16(values[2])
        m1 == p1.val * 60
        s1 == Wrap16(h1) + Wrap16(m1)
        p2 == parse_u16(values[3])
        s2 == Wrap16(s1) + p2.val
    IN  IF ~p0.ok THEN Panic("unwrap")
        ELSE IF overflow_checks /\ h1 > U16Max THEN Panic("overflow")
        ELSE IF Len(values) < 2 THEN Panic("index")
        ELSE IF ~p1.ok THEN Panic("unwrap")
        ELSE IF overflow_checks /\ (m1 > U16Max \/ s1 > U16Max) THEN Panic("overflow")
        ELSE IF Len(values) < 3 THEN Panic("index")
        ELSE IF ~p2.ok THEN Panic("unwrap")
        ELSE IF overflow_checks /\ s2 > U16Max THEN Panic("overflow")
        ELSE Returned(Wrap16(s2))

\* fn to_seconds(time: &str) -> u16, in the order Rust evaluates it.  An
\* arithmetic overflow panics when the build checks overflow and wraps
\* otherwise.
to_seconds(time) ==
    LET values == split(TimeSplit, time)
        p0 == parse_u16(values[1])
        h1 == p0.val * 60
        h2 == Wrap16(h1) * 60
        p1 == parse_u16(values[2])
        m1 == p1.val * 60
        s1 == Wrap16(h2) + Wrap16(m1)
        p2 == parse_u16(values[3])
        s2 == Wrap16(s1) + p2.val
    IN  IF ~p0.ok THEN Panic("unwrap")
        ELSE IF overflow_checks /\ (h1 > U16Max \/ h2 > U16Max) THEN Panic("overflow")
        ELSE IF Len(values) < 2 THEN Panic("index")
        ELSE IF ~p1.ok THEN Panic("unwrap")
        ELSE IF overflow_checks /\ (m1 > U16Max \/ s1 > U16Max) THEN Panic("overflow")
        ELSE IF Len(values) < 3 THEN Panic("index")
        ELSE IF ~p2.ok THEN Panic("unwrap")
        ELSE IF overflow_checks /\ s2 > U16Max THEN Panic("overflow")
        ELSE Returned(Wrap16(s2))

\* format!("{}", n) of a u16: decimal, no padding.
RECURSIVE Decimal(_)
Decimal(n) ==
    IF n < 10 THEN DigitChar(n) ELSE Decimal(n \div 10) \o DigitChar(n % 10)

\* A slip a programmer could make: the minutes are not reduced modulo the hour.
to_timestamp_total_minutes(seconds) ==
    Decimal(seconds \div 3600) \o ":" \o Decimal(seconds \div 60)
        \o ":" \o Decimal((seconds % 3600) % 60)

\* fn to_timestamp(seconds: u16) -> String
to_timestamp(seconds) ==
    LET hours == seconds \div 3600
        minutes == (seconds % 3600) \div 60
        secs == (seconds % 3600) % 60
    IN  Decimal(hours) \o ":" \o Decimal(minutes) \o ":" \o Decimal(secs)

-----------------------------------------------------------------------------
(* The catalog: Song, Album, Collection                                    *)

\* Song::new
Song_new(n, a, l) == [name |-> n, artist |-> a, length |-> l]

\* Album::new
Album_new(n, a) == [name |-> n, artist |-> a, songs |-> <<>>]

\* A slip a programmer could make: the new song goes to the front.
Album_add_front(self, x) == [self EXCEPT !.songs = <<x>> \o @]

\* A slip a programmer could make: a song the album holds already is not
\* added again.
Album_add_dedup(self, x) ==
    IF \E i \in 1..Len(self.songs) : self.songs[i] = x THEN self
    ELSE [self EXCEPT !.songs = Append(@, x)]

\* Album::add
Album_add(self, x) == [self EXCEPT !.songs = Append(@, x)]

\* Collection::new
Collection_new == [length |-> 0, albums |-> <<>>]

\* Collection::getLength
getLength(self) == self.length

\* `self.length += 1` overflows, which panics in a build that checks overflow.
Collection_add_panics(self) == overflow_checks /\ self.length + 1 > U16Max

\* A slip a programmer could make: the album is pushed and the count forgotten.
Collection_add_uncounted(self, x) == [self EXCEPT !.albums = Append(@, x)]

\* A slip a programmer could make: the album is inserted at the front.
Collection_add_front(self, x) ==
    [albums |-> <<x>> \o self.albums,
     length |-> IF self.length + 1 > U16Max
                THEN (IF overflow_checks THEN self.length ELSE Wrap16(self.length + 1))
                ELSE self.length + 1]

\* Collection::add: the push, then the count.  When the count overflows the
\* push has happened already; the count wraps unless the build panics.
Collection_add(self, x) ==
    [albums |-> Append(self.albums, x),
     length |-> IF self.length + 1 > U16Max
                THEN (IF overflow_checks THEN self.length ELSE Wrap16(self.length + 1))
                ELSE self.length + 1]

\* A slip a programmer could make: the scan keeps the last match.
find_album_last(self, name) ==
    LET hits == {i \in 1..Len(self.albums) : self.albums[i].name = name}
    IN  IF hits = {} THEN Err("not_found")
        ELSE Ok(CHOOSE i \in hits : \A j \in hits : j <= i)

\* The loop of find_album from index i on.  A reference to an element of
\* albums is modelled by the element's index.
RECURSIVE FindAlbumFrom(_, _, _)
FindAlbumFrom(self, name, i) ==
    IF i > Len(self.albums) THEN Err("not_found")
    ELSE IF self.albums[i].name = name THEN Ok(i)
    ELSE FindAlbumFrom(self, name, i + 1)

\* Collection::find_album
find_album(self, name) == FindAlbumFrom(self, name, 1)

-----------------------------------------------------------------------------
(* The inputs of the model                                                 *)

HendrixHeader   == "Jimi Hendrix Experience : Are You Experienced?"
FoxyLady        == "0:03:22 - Foxy Lady"
ManicDepression == "0:03:46 - Manic Depression"
\* A header with two separators, naming the same album under another artist.
ReissueHeader   == "Experience Hendrix : Are You Experienced? : Reissue"
\* A header without separator.
BareHeader      == "Untitled Demos"
\* A track whose timestamp has two fields.
ShortStamp      == "3:22 - Red House"
\* A track of 19 hours: 68400 seconds.
LongTrack       == "19:00:00 - Marathon"
\* A track whose title holds the separator again.
LiveTrack       == "0:06:50 - Third Stone - Live"
\* A track separated by tabs.
TabTrack        == "0:02:47\t-\tFire"

Lines == {HendrixHeader, FoxyLady, ManicDepression, ReissueHeader, BareHeader,
          ShortStamp, LongTrack, LiveTrack, TabTrack}

Names == {"Are You Experienced?", "are you experienced?", "DEFAULT"}

\* The fields the timestamps of the model are made of.
Fields == {"", "0", "1", "20", "18", "19", "65535", "x"}

\* The timestamps of k fields.
RECURSIVE Stamps(_)
Stamps(k) ==
    IF k = 1 THEN Fields
    ELSE {t \o ":" \o f : t \in Stamps(k - 1), f \in Fields}

ExtraTimes == {"1:00:00", "0:03:22", "0:03:46", "0:0:65536", "+0:+1:+20",
               "18:12:15", "18:12:16", "1092:0:0", "1:2", "1:2:3:4", "0:-1:20",
               " 0:1:20", "0:1:2O"}

TimeInputs == UNION {Stamps(k) : k \in 1..MaxFields} \cup ExtraTimes

-----------------------------------------------------------------------------
(* Collection::parseFile and the calls on a Collection                     *)

Init ==
    /\ overflow_checks \in BOOLEAN
    /\ collection = Collection_new
    /\ album = NoValue
    /\ read = <<>>
    /\ before = Collection_new
    /\ nlines = 0
    /\ pc = "idle"
    /\ arg = NoCall
    /\ ret = NoValue

Callable == pc \in {"idle", "returned"}

\* parseFile is called and File::open succeeds: the accumulator is the sentinel.
ParseFileCall ==
    /\ Callable
    /\ pc' = "parsing"
    /\ album' = Album_new("DEFAULT", "DEFALT")
    /\ read' = <<>>
    /\ before' = collection
    /\ arg' = NoCall
    /\ ret' = NoValue
    /\ UNCHANGED <<overflow_checks, collection, nlines>>

\* parseFile is called and File::open(&path).unwrap() panics.
ParseFileOpenFails ==
    /\ Callable
    /\ pc' = "panicked"
    /\ album' = NoValue
    /\ read' = <<>>
    /\ before' = collection
    /\ arg' = NoCall
    /\ ret' = NoValue
    /\ UNCHANGED <<overflow_checks, collection, nlines>>

\* file.lines() yields an error and line.unwrap() panics.
LineReadFails ==
    /\ pc = "parsing"
    /\ pc' = "panicked"
    /\ album' = NoValue
    /\ UNCHANGED <<overflow_checks, collection, read, before, nlines, arg, ret>>

\* A slip a programmer could make: the song takes the artist of the album
\* it is added to.
TrackLine_inherits_artist(nextLine) ==
    /\ pc = "parsing"
    /\ nlines < MaxLines
    /\ is_match(SongTest, nextLine)
    /\ LET data == split(SongSplit, nextLine)
           secs == to_seconds(data[1])
       IN  IF Len(data) < 2 \/ secs.panic
           THEN pc' = "panicked" /\ album' = NoValue
           ELSE /\ pc' = "parsing"
                /\ album' = Album_add(album, Song_new(data[2], album.artist, secs.val))
    /\ read' = Append(read, nextLine)
    /\ nlines' = nlines + 1
    /\ UNCHANGED <<overflow_checks, collection, before, arg, ret>>

\* A slip a programmer could make: a track line whose duration cannot be
\* converted is skipped and the parse goes on.
TrackLine_skips_bad(nextLine) ==
    /\ pc = "parsing"
    /\ nlines < MaxLines
    /\ is_match(SongTest, nextLine)
    /\ LET data == split(SongSplit, nextLine)
           secs == to_seconds(data[1])
       IN  IF Len(data) < 2 \/ secs.panic
           THEN pc' = "parsing" /\ album' = album
           ELSE /\ pc' = "parsing"
                /\ album' = Album_add(album, Song_new(data[2], "DEFALT", secs.val))
    /\ read' = Append(read, nextLine)
    /\ nlines' = nlines + 1
    /\ UNCHANGED <<overflow_checks, collection, before, arg, ret>>

\* The loop body on a line that matches r" - ".
TrackLine(nextLine) ==
    /\ pc = "parsing"
    /\ nlines < MaxLines
    /\ is_match(SongTest, nextLine)
    /\ LET data == split(SongSplit, nextLine)
           secs == to_seconds(data[1])
       IN  IF Len(data) < 2 \/ secs.panic
           THEN pc' = "panicked" /\ album' = NoValue
           ELSE /\ pc' = "parsing"
                /\ album' = Album_add(album, Song_new(data[2], "DEFALT", secs.val))
    /\ read' = Append(read, nextLine)
    /\ nlines' = nlines + 1
    /\ UNCHANGED <<overflow_checks, collection, before, arg, ret>>

\* A slip a programmer could make: the header's own album is committed at
\* once, instead of the accumulator that the header closes.
HeaderLine_commits_new(nextLine) ==
    /\ pc = "parsing"
    /\ nlines < MaxLines
    /\ ~is_match(SongTest, nextLine)
    /\ LET data == split(HeaderSplit, nextLine)
       IN  IF Len(data) < 2
           THEN pc' = "panicked" /\ album' = NoValue /\ collection' = collection
           ELSE /\ pc' = "parsing"
                /\ album' = Album_new(data[2], data[1])
                /\ collection' = Collection_add(collection, Album_new(data[2], data[1]))
    /\ read' = Append(read, nextLine)
    /\ nlines' = nlines + 1
    /\ UNCHANGED <<overflow_checks, before, arg, ret>>

\* A slip a programmer could make: an accumulator without songs is not
\* committed.
HeaderLine_skips_empty(nextLine) ==
    /\ pc = "parsing"
    /\ nlines < MaxLines
    /\ ~is_match(SongTest, nextLine)
    /\ collection' = IF album.songs = <<>> THEN collection
                     ELSE Collection_add(collection, album)
    /\ LET data == split(HeaderSplit, nextLine)
       IN  IF Collection_add_panics(collection) \/ Len(data) < 2
           THEN pc' = "panicked" /\ album' = NoValue
           ELSE pc' = "parsing" /\ album' = Album_new(data[2], data[1])
    /\ read' = Append(read, nextLine)
    /\ nlines' = nlines + 1
    /\ UNCHANGED <<overflow_checks, before, arg, ret>>

\* The loop body on any other line: the accumulator is committed, then the
\* line is split into the next accumulator.
HeaderLine(nextLine) ==
    /\ pc = "parsing"
    /\ nlines < MaxLines
    /\ ~is_match(SongTest, nextLine)
    /\ collection' = Collection_add(collection, album)
    /\ LET data == split(HeaderSplit, nextLine)
       IN  IF Collection_add_panics(collection) \/ Len(data) < 2
           THEN pc' = "panicked" /\ album' = NoValue
           ELSE pc' = "parsing" /\ album' = Album_new(data[2], data[1])
    /\ read' = Append(read, nextLine)
    /\ nlines' = nlines + 1
    /\ UNCHANGED <<overflow_checks, before, arg, ret>>

\* file.lines() is exhausted: the loop ends, the accumulator is dropped and
\* parseFile returns.
ParseFileReturn ==
    /\ pc = "parsing"
    /\ pc' = "returned"
    /\ album' = NoValue
    /\ UNCHANGED <<overflow_checks, collection, read, before, nlines, arg, ret>>

\* A call of find_album on the Collection.
FindAlbum(name) ==
    /\ Callable
    /\ arg' = [fn |-> "find_album", name |-> name]
    /\ ret' = find_album(collection, name)
    /\ UNCHANGED <<overflow_checks, collection, album, read, before, nlines, pc>>

\* A call of getLength on the Collection.
GetLength ==
    /\ Callable
    /\ arg' = [fn |-> "getLength"]
    /\ ret' = getLength(collection)
    /\ UNCHANGED <<overflow_checks, collection, album, read, before, nlines, pc>>

Next ==
    \/ ParseFileCall
    \/ ParseFileOpenFails
    \/ LineReadFails
    \/ \E nextLine \in Lines : TrackLine(nextLine)
    \/ \E nextLine \in Lines : HeaderLine(nextLine)
    \/ ParseFileReturn
    \/ \E name \in Names : FindAlbum(name)
    \/ GetLength

Spec == Init /\ [][Next]_vars

-----------------------------------------------------------------------------
(* The codec on its own: every u16 through to_timestamp and back, and      *)
(* to_seconds on the timestamps of the model.                              *)

CallToSeconds ==
    /\ arg = NoCall
    /\ \E time \in TimeInputs :
          /\ arg' = [fn |-> "to_seconds", time |-> time]
          /\ ret' = to_seconds(time)
    /\ UNCHANGED <<overflow_checks, collection, album, read, before, nlines, pc>>

CallToTimestamp ==
    /\ arg = NoCall
    /\ \E seconds \in 0..U16Max :
          /\ arg' = [fn |-> "to_timestamp", seconds |-> seconds]
          /\ ret' = to_timestamp(seconds)
    /\ UNCHANGED <<overflow_checks, collection, album, read, before, nlines, pc>>

\* The timestamp to_timestamp returned is handed to to_seconds.
CallToSecondsBack ==
    /\ arg.fn = "to_timestamp"
    /\ arg' = [fn |-> "round_trip", seconds |-> arg.seconds, time |-> ret]
    /\ ret' = to_seconds(ret)
    /\ UNCHANGED <<overflow_checks, collection, album, read, before, nlines, pc>>

CodecNext ==
    \/ CallToSeconds
    \/ CallToTimestamp
    \/ CallToSecondsBack

CodecSpec == Init /\ [][CodecNext]_vars

-----------------------------------------------------------------------------
(* The loop body on its own: parseFile on files of one line, every short   *)
(* text of spaces, tabs, hyphens and letters, and the lines of the model.  *)

Alphabet == {" ", "\t", "-", "a"}

\* The texts of at most n characters.
RECURSIVE Texts(_)
Texts(n) ==
    IF n = 0 THEN {""}
    ELSE LET shorter == Texts(n - 1)
         IN  shorter \cup {t \o c : t \in shorter, c \in Alphabet}

ShortLines == Texts(MaxLineLen) \cup Lines

\* The first line of the file matches r" - ".
FirstTrackLine ==
    /\ pc = "parsing"
    /\ read = <<>>
    /\ \E nextLine \in ShortLines : TrackLine(nextLine)

\* The first line of the file is any other line.
FirstHeaderLine ==
    /\ pc = "parsing"
    /\ read = <<>>
    /\ \E nextLine \in ShortLines : HeaderLine(nextLine)

LineNext ==
    \/ ParseFileCall
    \/ FirstTrackLine
    \/ FirstHeaderLine

LineSpec == Init /\ [][LineNext]_vars

-----------------------------------------------------------------------------
(* What the claims speak of                                                *)

\* The decimal value of a string of digits, from its last digit.
RECURSIVE ValueOf(_)
ValueOf(s) ==
    IF s = "" THEN 0
    ELSE ValueOf(SubSeq(s, 1, Len(s) - 1)) * 10 + DigitValue(Char(s, Len(s)))

AllDigits(s) == \A i \in 1..Len(s) : Char(s, i) \in Digits

\* A field that writes a non-negative integer: digits, or digits after a '+'.
IsNumber(f) ==
    \/ f # "" /\ AllDigits(f)
    \/ Len(f) > 1 /\ Char(f, 1) = "+" /\ AllDigits(SubSeq(f, 2, Len(f)))

NumberOf(f) == IF Char(f, 1) = "+" THEN ValueOf(SubSeq(f, 2, Len(f))) ELSE ValueOf(f)

FieldsOf(time) == split(TimeSplit, time)

\* Exactly three fields, each a non-negative integer.
IsStamp(time) ==
    LET f == FieldsOf(time)
    IN  Len(f) = 3 /\ \A k \in 1..3 : IsNumber(f[k])

\* H*3600 + M*60 + S in the integers.
TotalOf(time) ==
    LET f == FieldsOf(time)
    IN  NumberOf(f[1]) * 3600 + NumberOf(f[2]) * 60 + NumberOf(f[3])

\* A state right after a call of to_seconds.
AfterToSeconds == arg.fn \in {"to_seconds", "round_trip"}

\* A decimal without padding: no leading zero, but for "0" itself.
Unpadded(f) == f # "" /\ AllDigits(f) /\ (Len(f) > 1 => Char(f, 1) # "0")

\* What the claims need of each line of the model, worked out once: the
\* classification parseFile makes of it, whether it is a header line as the
\* file format has it (artist, " : ", album name), whether it is a track
\* line as the file format has it (a timestamp within range, " - ", a
\* title), whether it is a track line with a timestamp within range whatever
\* follows it (okTrack), the whole text before its first separator and the
\* whole text after it, whether it cannot be read at all (a track line
\* without a timestamp H:M:S of three u16 fields, a header line without
\* " : "), and whether its timestamp is beyond u16 (overflows).
LineFacts ==
    {LET isTrack == is_match(SongTest, line)
         header == split(HeaderSplit, line)
         track == split(SongSplit, line)
         stamp == /\ isTrack
                  /\ IsStamp(track[1])
                  /\ \A k \in 1..3 : NumberOf(FieldsOf(track[1])[k]) <= U16Max
         inRange == stamp /\ TotalOf(track[1]) <= U16Max
         sepAt == FindFrom(IF isTrack THEN SongSplit ELSE HeaderSplit, line, 1)
     IN  [line |-> line,
          textBefore |-> IF sepAt = 0 THEN line ELSE SubSeq(line, 1, sepAt - 1),
          textAfter |-> IF sepAt = 0 THEN "" ELSE SubSeq(line, sepAt + 3, Len(line)),
          isTrack |-> isTrack,
          header |-> header,
          track |-> track,
          goodHeader |-> ~isTrack /\ Len(header) = 2,
          goodTrack |-> inRange /\ Len(track) = 2,
          okTrack |-> inRange,
          unreadable |-> \/ isTrack /\ ~stamp
                         \/ ~isTrack /\ Len(header) < 2,
          overflows |-> stamp /\ ~inRange,
          total |-> IF inRange THEN TotalOf(track[1]) ELSE 0]
       : line \in Lines}

FactsOf(line) == CHOOSE f \in LineFacts : f.line = line

IsTrackLine(line) == FactsOf(line).isTrack

GoodHeader(line) == FactsOf(line).goodHeader

GoodTrack(line) == FactsOf(line).goodTrack

\* The text holds a hyphen between two characters of `around`.
HasHyphenBetween(s, around) ==
    \E i \in 1..(Len(s) - 2) :
        /\ Char(s, i) \in around
        /\ Char(s, i + 1) = "-"
        /\ Char(s, i + 2) \in around

\* The line makes the parse fail: it cannot be read, or its timestamp is
\* beyond u16 where the build checks overflow.
LineFails(line) ==
    FactsOf(line).unreadable \/ (overflow_checks /\ FactsOf(line).overflows)

\* Every line is a track line with a timestamp within range or a header
\* line with its separator.
Readable(rd) ==
    \A i \in 1..Len(rd) :
        \/ FactsOf(rd[i]).okTrack
        \/ ~IsTrackLine(rd[i]) /\ Len(FactsOf(rd[i]).header) >= 2

WellFormed(rd) == \A i \in 1..Len(rd) : GoodHeader(rd[i]) \/ GoodTrack(rd[i])

HeaderIdx(rd) == {i \in 1..Len(rd) : ~IsTrackLine(rd[i])}

NumHeaders(rd) == Cardinality(HeaderIdx(rd))

\* The index of the k-th header line.
NthHeader(rd, k) ==
    CHOOSE i \in HeaderIdx(rd) : Cardinality({j \in HeaderIdx(rd) : j <= i}) = k

\* The first header line after line i, or the end of the lines.
NextHeader(rd, i) ==
    LET later == {j \in HeaderIdx(rd) : j > i}
    IN  IF later = {} THEN Len(rd) + 1
        ELSE CHOOSE j \in later : \A k \in later : j <= k

\* The index of the last header line, 0 when there is none.
LastHeader(rd) ==
    IF HeaderIdx(rd) = {} THEN 0
    ELSE CHOOSE i \in HeaderIdx(rd) : \A j \in HeaderIdx(rd) : j <= i

\* The song a well-formed track line declares.
DeclaredSong(line) ==
    [name |-> FactsOf(line).track[2], artist |-> "DEFALT",
     length |-> FactsOf(line).total]

\* The songs of the track lines strictly between lines a and b.
SongsBetween(rd, a, b) == [k \in 1..(b - a - 1) |-> DeclaredSong(rd[a + k])]

\* The album the header at line i declares, with the tracks that follow it.
DeclaredAlbum(rd, i) ==
    [name |-> FactsOf(rd[i]).header[2], artist |-> FactsOf(rd[i]).header[1],
     songs |-> SongsBetween(rd, i, NextHeader(rd, i))]

\* The sentinel with the tracks that come before the first header.
SentinelAlbum(rd) ==
    [name |-> "DEFAULT", artist |-> "DEFALT",
     songs |-> SongsBetween(rd, 0, NextHeader(rd, 0))]

\* What the headers of rd commit, in order: the k-th header commits what
\* was declared before it.
Committed(rd) ==
    [k \in 1..NumHeaders(rd) |->
        IF k = 1 THEN SentinelAlbum(rd) ELSE DeclaredAlbum(rd, NthHeader(rd, k - 1))]

\* The albums the current parseFile call has added.
Added == SubSeq(collection.albums, Len(before.albums) + 1, Len(collection.albums))

\* The songs of the first n albums, one after the other.
RECURSIVE SongsOf(_, _)
SongsOf(albums, n) ==
    IF n = 0 THEN <<>> ELSE SongsOf(albums, n - 1) \o albums[n].songs

\* The track lines among the first n lines, in their order.
TrackLines(rd, n) == SelectSeq(SubSeq(rd, 1, n), IsTrackLine)

\* One header line, then well-formed track lines, then a second header line.
OneAlbumThenHeader(rd) ==
    /\ Len(rd) >= 2
    /\ GoodHeader(rd[1])
    /\ \A i \in 2..(Len(rd) - 1) : GoodTrack(rd[i])
    /\ ~IsTrackLine(rd[Len(rd)])

-----------------------------------------------------------------------------
(* The parser and the Collection                                           *)

\* C1: when parseFile returns on a well-formed input, every album a header
\* line declares, the last one included, is in the Collection with its tracks.
C1_EveryAlbumCommitted ==
    pc = "returned" /\ WellFormed(read) =>
        \A i \in HeaderIdx(read) :
            \E j \in 1..Len(Added) : Added[j] = DeclaredAlbum(read, i)

C4_ExactlyOneAlbum ==
    before = Collection_new /\ OneAlbumThenHeader(read) =>
        collection.albums = <<DeclaredAlbum(read, 1)>>

\* C4 as amended: they leave exactly two albums, the song-less sentinel
\* that the first header line commits and then the one named N by A with
\* those tracks in order; for the example of the specification, 'Are You
\* Experienced?' by 'Jimi Hendrix Experience' with two songs, the first
\* 'Foxy Lady' of length 202.
C4_SentinelThenAlbum ==
    before = Collection_new /\ OneAlbumThenHeader(read) =>
        /\ collection.albums = <<Album_new("DEFAULT", "DEFALT"), DeclaredAlbum(read, 1)>>
        /\ (Len(read) = 4 /\ SubSeq(read, 1, 3) = <<HendrixHeader, FoxyLady, ManicDepression>>) =>
               /\ collection.albums[2].name = "Are You Experienced?"
               /\ collection.albums[2].artist = "Jimi Hendrix Experience"
               /\ Len(collection.albums[2].songs) = 2
               /\ collection.albums[2].songs[1].name = "Foxy Lady"
               /\ collection.albums[2].songs[1].length = 202

C4_Witness ==
    /\ pc = "returned"
    /\ before = Collection_new
    /\ read = <<HendrixHeader, FoxyLady, ManicDepression, HendrixHeader>>
    /\ Len(collection.albums) = 2
    /\ collection.albums[2].songs[2].name = "Manic Depression"

\* C9: a header line that does not hold " : " exactly once makes the parse
\* fail at that line, so that no album built from it is ever added.
C9_MalformedHeaderFails ==
    \A i \in HeaderIdx(read) :
        Len(FactsOf(read[i]).header) # 2 => i = Len(read) /\ pc = "panicked"

\* C10: find_album returns the album of lowest index whose name is exactly
\* the name asked for, and not_found exactly when no album has that name.
C10_FirstMatch ==
    arg.fn = "find_album" =>
        LET hits == {i \in 1..Len(collection.albums) :
                        collection.albums[i].name = arg.name}
        IN  IF hits = {} THEN ret = Err("not_found")
            ELSE ret.ok /\ ret.val \in hits /\ \A j \in hits : ret.val <= j

C10_Witness ==
    /\ arg.fn = "find_album"
    /\ arg.name = "Are You Experienced?"
    /\ Len(collection.albums) = 3
    /\ collection.albums[2].name = arg.name
    /\ collection.albums[3].name = arg.name
    /\ collection.albums[2] # collection.albums[3]
    /\ ret = Ok(2)

\* The songs of the first n albums, counted together.
RECURSIVE SongsIn(_, _)
SongsIn(albums, n) ==
    IF n = 0 THEN 0 ELSE SongsIn(albums, n - 1) + Len(albums[n].songs)

\* C11: getLength returns the number of songs in the Collection, the sum of
\* the song counts of its albums.
C11_LengthCountsSongs ==
    arg.fn = "getLength" =>
        ret = SongsIn(collection.albums, Len(collection.albums))

\* C12: a line that fails ends the parse for good. No line is read after
\* it, so a failing line is always the last one read, and the parse is
\* neither running nor returned. When the lines before it are readable, the
\* Collection holds what it held before the call and then exactly what the
\* header lines read so far have committed, the failing line included if it
\* is a header line: a failing track line adds no Song to any of them, and
\* the accumulator is lost.
C12_FailureIsFatal ==
    /\ \A i \in 1..Len(read) :
           LineFails(read[i]) => i = Len(read) /\ pc = "panicked"
    /\ /\ pc = "panicked"
       /\ read # <<>>
       /\ LineFails(read[Len(read)])
       /\ Readable(SubSeq(read, 1, Len(read) - 1))
       => /\ album = NoValue
          /\ Len(Added) = NumHeaders(read)
          /\ \A k \in 1..Len(Added) : Added[k] = Committed(read)[k]
          /\ SubSeq(collection.albums, 1, Len(before.albums)) = before.albums

C12_Witness ==
    /\ pc = "panicked"
    /\ read = <<HendrixHeader, FoxyLady, ShortStamp>>
    /\ Added = <<Album_new("DEFAULT", "DEFALT")>>

\* C13: on every parseFile call, as soon as a header line has been read,
\* the first album the call has added is the sentinel named "DEFAULT", and
\* its songs are exactly the track lines before the first header line, in
\* their order: none when the input starts with a header line.
C13_SentinelFirst ==
    NumHeaders(read) >= 1 =>
        /\ Len(Added) >= 1
        /\ Added[1].name = "DEFAULT"
        /\ Added[1].artist = "DEFALT"
        /\ Len(Added[1].songs) = NthHeader(read, 1) - 1
        /\ \A i \in 1..(NthHeader(read, 1) - 1) :
               FactsOf(read[i]).okTrack =>
                   Added[1].songs[i] = DeclaredSong(read[i])

C13_Witness ==
    /\ Len(before.albums) = 1
    /\ read = <<FoxyLady, ManicDepression, HendrixHeader>>
    /\ Len(Added) = 1
    /\ Added[1].name = "DEFAULT"
    /\ Len(Added[1].songs) = 2
    /\ Added[1].songs[1].name = "Foxy Lady"

\* C14: while the parse runs, the accumulator is the album of the nearest
\* preceding header line, or the sentinel when there is none: its artist is
\* the text before " : " in that line, its name the text after it, and its
\* songs are the track lines read since, none right after the header. The
\* albums added are as many as the header lines, each with as many songs as
\* there are lines between its header and the next.
C14_TracksUnderNearestHeader ==
    pc = "parsing" =>
        LET h == LastHeader(read)
        IN  /\ Len(album.songs) = Len(read) - h
            /\ \A i \in (h + 1)..Len(read) :
                   FactsOf(read[i]).okTrack =>
                       album.songs[i - h] = DeclaredSong(read[i])
            /\ h = 0 => album.name = "DEFAULT" /\ album.artist = "DEFALT"
            /\ h > 0 => /\ album.artist = FactsOf(read[h]).textBefore
                        /\ album.name = FactsOf(read[h]).textAfter
            /\ Len(Added) = NumHeaders(read)
            /\ \A k \in 1..Len(Added) :
                   Len(Added[k].songs) = Len(Committed(read)[k].songs)

\* C15: order is kept and nothing is lost or merged. The songs of the
\* albums a call has added, read album after album, are the track lines
\* before the last header line, one song per line in the order of the
\* lines, equal lines included; while the parse runs the songs of the
\* accumulator are the track lines after that header in the same way. After
\* the sentinel, the k-th album added is the one the k-th header line named.
C15_OrderPreserved ==
    LET h == LastHeader(read)
        closed == TrackLines(read, h)
        open == SelectSeq(SubSeq(read, h + 1, Len(read)), IsTrackLine)
        songs == SongsOf(Added, Len(Added))
    IN  /\ Len(songs) = Len(closed)
        /\ \A j \in 1..Len(songs) :
               /\ songs[j].name = FactsOf(closed[j]).track[2]
               /\ FactsOf(closed[j]).okTrack => songs[j] = DeclaredSong(closed[j])
        /\ pc = "parsing" =>
               /\ Len(album.songs) = Len(open)
               /\ \A j \in 1..Len(open) :
                      /\ album.songs[j].name = FactsOf(open[j]).track[2]
                      /\ FactsOf(open[j]).okTrack =>
                             album.songs[j] = DeclaredSong(open[j])
        /\ \A k \in 2..Len(Added) :
               LET header == FactsOf(read[NthHeader(read, k - 1)]).header
               IN  Added[k].name = header[2] /\ Added[k].artist = header[1]

C15_Witness ==
    /\ pc = "parsing"
    /\ read = <<ManicDepression, HendrixHeader, FoxyLady, FoxyLady>>
    /\ Len(Added[1].songs) = 1
    /\ Len(album.songs) = 2
    /\ album.songs[1] = album.songs[2]

\* C16: the Collection only grows at its end and what it holds never
\* changes. Over every step the albums it held are a prefix of the albums it
\* holds, unchanged; a step that reads a track line leaves the Collection as
\* it was, albums and count; a step that reads a header line appends exactly
\* one album, the accumulator, and raises the count by 1; and the albums the
\* Collection held when parseFile was called stay its prefix.
C16_AppendOnly ==
    [][LET old == collection.albums
           new == collection'.albums
       IN  /\ Len(new) >= Len(old)
           /\ SubSeq(new, 1, Len(old)) = old
           /\ SubSeq(new, 1, Len(before'.albums)) = before'.albums
           /\ pc = "parsing" /\ Len(read') = Len(read) + 1 =>
                  IF IsTrackLine(read'[Len(read')])
                  THEN collection' = collection /\ before' = before
                  ELSE /\ new = Append(old, album)
                       /\ collection'.length = collection.length + 1
                       /\ before' = before]_vars

C16_Witness ==
    /\ pc = "parsing"
    /\ Len(before.albums) = 2
    /\ Len(before.albums[2].songs) = 1
    /\ read = <<HendrixHeader>>
    /\ Len(collection.albums) = 3
    /\ SubSeq(collection.albums, 1, 2) = before.albums

\* C17: a track line is split in exactly two parts. Right after a track
\* line has been read, the last song of the accumulator has as name the
\* whole text after the first separator of the line, a further " - " in it
\* included, and as length the duration the text before it writes.
C17_SplitInTwo ==
    pc = "parsing" /\ read # <<>> /\ IsTrackLine(read[Len(read)]) =>
        LET f == FactsOf(read[Len(read)])
            song == album.songs[Len(album.songs)]
        IN  /\ Len(f.track) = 2
            /\ song.name = f.textAfter
            /\ f.okTrack => f.track[1] = f.textBefore /\ song.length = f.total

\* C18: every song the parser has made, in the albums of the Collection
\* and in the accumulator, has the artist "DEFALT", whatever the artist of
\* the album that holds it.
C18_PlaceholderArtist ==
    /\ \A i \in 1..Len(collection.albums) :
           \A j \in 1..Len(collection.albums[i].songs) :
               collection.albums[i].songs[j].artist = "DEFALT"
    /\ pc = "parsing" =>
           \A j \in 1..Len(album.songs) : album.songs[j].artist = "DEFALT"

C18_Witness ==
    /\ Len(collection.albums) = 2
    /\ collection.albums[2].artist = "Jimi Hendrix Experience"
    /\ Len(collection.albums[2].songs) = 2
    /\ collection.albums[2].songs[2].artist = "DEFALT"

-----------------------------------------------------------------------------
(* The timestamp codec                                                     *)

\* C5: for every duration x in 0..65535, to_seconds(to_timestamp(x)) returns x
\* and does not fail, in a build that checks overflow as in one that wraps.
C5_RoundTrip ==
    arg.fn = "round_trip" => ret = Returned(arg.seconds)

C5_Witness ==
    /\ arg.fn = "round_trip"
    /\ arg.seconds = U16Max
    /\ arg.time = "18:12:15"
    /\ overflow_checks
    /\ ret = Returned(U16Max)

\* C6: to_seconds fails on every input whose number of fields is not exactly 3
\* and on every input with a field that is not a non-negative integer.
C6_MalformedFails ==
    AfterToSeconds /\ ~IsStamp(arg.time) => ret.panic

\* C7: with three valid fields whose total H*3600 + M*60 + S exceeds 65535,
\* to_seconds fails, and it never returns anything but the total.
C7_NeverWraps ==
    AfterToSeconds /\ IsStamp(arg.time) =>
        /\ TotalOf(arg.time) > U16Max => ret.panic
        /\ ~ret.panic => ret.val = TotalOf(arg.time)

\* C8: with three valid fields, padded or not, whose total fits in 16 bits,
\* to_seconds returns H*3600 + M*60 + S ("0:1:20" gives 80, "1:00:00" gives
\* 3600); to_timestamp(x) is x/3600, (x%3600)/60 and x%60 as unpadded
\* decimals joined by ':'.
C8_CodecValues ==
    /\ AfterToSeconds /\ IsStamp(arg.time) /\ TotalOf(arg.time) <= U16Max =>
           ret = Returned(TotalOf(arg.time))
    /\ AfterToSeconds /\ arg.time = "0:1:20" => ret = Returned(80)
    /\ AfterToSeconds /\ arg.time = "1:00:00" => ret = Returned(3600)
    /\ arg.fn = "to_timestamp" =>
           LET f == FieldsOf(ret)
           IN  /\ Len(f) = 3
               /\ \A k \in 1..3 : Unpadded(f[k])
               /\ ValueOf(f[1]) = arg.seconds \div 3600
               /\ ValueOf(f[2]) = (arg.seconds % 3600) \div 60
               /\ ValueOf(f[3]) = arg.seconds % 60

C8_Witness ==
    /\ arg.fn = "to_seconds"
    /\ arg.time = "1:00:00"
    /\ ret = Returned(3600)

-----------------------------------------------------------------------------
(* The loop body on one line                                               *)

\* C19: a line that holds the literal " - " is taken as a track line and
\* its split has at least two parts, so parts 0 and 1 exist: nothing is
\* committed, and the parse fails exactly when the conversion of part 0 to
\* a duration fails, else the accumulator has its song. A line that holds a
\* hyphen between whitespace but never between two spaces (a tab on a side)
\* is taken as a header line: the accumulator is committed.
C19_TestAndSplitAgree ==
    Len(read) = 1 =>
        LET line == read[1]
            data == split(SongSplit, line)
        IN  /\ HasHyphenBetween(line, {" "}) =>
                   /\ Len(data) >= 2
                   /\ collection = before
                   /\ pc = "panicked" <=> to_seconds(data[1]).panic
                   /\ pc = "parsing" =>
                          /\ Len(album.songs) = 1
                          /\ album.songs[1].name = data[2]
            /\ HasHyphenBetween(line, {" ", "\t"}) /\ ~HasHyphenBetween(line, {" "}) =>
                   Added = <<Album_new("DEFAULT", "DEFALT")>>

C19_Witness ==
    /\ pc = "panicked"
    /\ read = <<"a - a">>
    /\ collection = before
    /\ Len(split(SongSplit, "a - a")) = 2

====
